---- MODULE Spec2Model ----
(***************************************************************************)
(* Model of evaluation_sls.py: mean average precision of the anomaly       *)
(* windows of the streaming least squares detector against point labels.   *)
(*                                                                         *)
(* Times are whole minutes.  The label series is one-minute spaced: the    *)
(* point at position i (0-based, as in the source) carries timestamp i.    *)
(* A window endpoint is a tagged value: k = "ts" for a timestamp           *)
(* (timestamps[i], a datetime) and k = "int" for a bare Python integer     *)
(* (the initial start = 0 and the loop index i the source stores).         *)
(* Comparing a datetime with an int raises TypeError in Python.            *)
(*                                                                         *)
(* Overlap scores are Python floats, i.e. IEEE-754 doubles: each ratio is  *)
(* one correctly rounded division and each "iou_i +=" one correctly        *)
(* rounded addition (round to nearest, ties to even).  A double d with     *)
(* d = 0 or 2^-13 <= d < 4 is held exactly as the integer d * 2^66 written *)
(* in base 2^15, most significant limb first; every score of the inputs    *)
(* considered here lies in that range.                                     *)
(* Precision, recall and the averages are each a quotient of two small     *)
(* integers and are held as exact fractions [n, d] in lowest terms.        *)
(***************************************************************************)
EXTENDS Integers, Sequences, FiniteSets, TLC

VARIABLES label, anomalies, pc, ti, mean, call, result

vars == <<label, anomalies, pc, ti, mean, call, result>>

\* ---------------------------------------------------------------- bounds
MaxLabelLen == 5
MaxTime == 3
MaxDet == 1
RankLabelLen == 4
RankTime == 1
RankDet == 3
OrderLen == 42
MaxRun == 4

\* ------------------------------------------------------------- fractions
RECURSIVE GCD(_, _)
GCD(a, b) == IF b = 0 THEN a ELSE GCD(b, a % b)

Frac(n, d) == LET g == GCD(n, d) IN [n |-> n \div g, d |-> d \div g]

Zero == Frac(0, 1)
One == Frac(1, 1)

FAdd(x, y) == Frac(x.n * y.d + y.n * x.d, x.d * y.d)
FGt(x, y) == x.n * y.d > y.n * x.d
FGe(x, y) == x.n * y.d >= y.n * x.d
FLe(x, y) == FGe(y, x)

\* Left-to-right sum of the first k elements, as a Python accumulation does.
RECURSIVE FSumTo(_, _)
FSumTo(s, k) == IF k = 0 THEN Zero ELSE FAdd(FSumTo(s, k - 1), s[k])

FSum(s) == FSumTo(s, Len(s))

\* --------------------------------------------------------------- doubles
Base == 2^15
DZero == <<0, 0, 0, 0, 0>>

RECURSIVE BitLen(_)
BitLen(x) == IF x = 0 THEN 0 ELSE 1 + BitLen(x \div 2)

\* Number of significant bits of the integer held in the limbs.
Length(x) ==
  IF x[1] > 0 THEN 60 + BitLen(x[1])
  ELSE IF x[2] > 0 THEN 45 + BitLen(x[2])
  ELSE IF x[3] > 0 THEN 30 + BitLen(x[3])
  ELSE IF x[4] > 0 THEN 15 + BitLen(x[4])
  ELSE BitLen(x[5])

\* Exact sum of two limb vectors, carries propagated.
AddLimbs(x, y) ==
  LET s5 == x[5] + y[5]
      s4 == x[4] + y[4] + (s5 \div Base)
      s3 == x[3] + y[3] + (s4 \div Base)
      s2 == x[2] + y[2] + (s3 \div Base)
      s1 == x[1] + y[1] + (s2 \div Base)
  IN  <<s1, s2 % Base, s3 % Base, s4 % Base, s5 % Base>>

\* Round to 53 significant bits, to nearest, ties to even.  `sticky` tells
\* that the exact value lies strictly above the integer x.
Round53(x, sticky) ==
  LET t == Length(x) - 53
  IN  IF t <= 0 THEN x
      ELSE LET low == x[5] % (2^t)
               half == 2^(t - 1)
               odd == IF t = 15 THEN x[4] % 2 = 1 ELSE (x[5] \div (2^t)) % 2 = 1
               up == low > half \/ (low = half /\ (sticky \/ odd))
               trunc == [x EXCEPT ![5] = x[5] - low]
           IN  IF up THEN AddLimbs(trunc, <<0, 0, 0, 0, 2^t>>) ELSE trunc

\* float(a) / b for integers a >= 0, b > 0: long division of a * 2^66 by b.
DDiv(a, b) ==
  LET n1 == a * 64
      n2 == (n1 % b) * Base
      n3 == (n2 % b) * Base
      n4 == (n3 % b) * Base
      n5 == (n4 % b) * Base
  IN  Round53(<<n1 \div b, n2 \div b, n3 \div b, n4 \div b, n5 \div b>>, n5 % b # 0)

DAdd(x, y) == Round53(AddLimbs(x, y), FALSE)

DOne == DDiv(1, 1)

RECURSIVE DGtFrom(_, _, _)
DGtFrom(x, y, k) ==
  IF k > 5 THEN FALSE
  ELSE IF x[k] # y[k] THEN x[k] > y[k]
  ELSE DGtFrom(x, y, k + 1)

DGt(x, y) == DGtFrom(x, y, 1)
DGe(x, y) == ~DGt(y, x)

\* Left-to-right accumulation from the integer 0, as "iou_i += ..." does.
RECURSIVE DSumTo(_, _)
DSumTo(s, k) == IF k = 0 THEN DZero ELSE DAdd(DSumTo(s, k - 1), s[k])

DSum(s) == DSumTo(s, Len(s))

Reverse(s) == [x \in 1..Len(s) |-> s[Len(s) + 1 - x]]

\* ------------------------------------------------------------ time values
Stamp(i) == [k |-> "ts", v |-> i]
PyInt(i) == [k |-> "int", v |-> i]

\* ------------------------------------------------- label_anomaly_windows
\* One pass of the loop body for source index i (labels[i] is label[i+1]).
RECURSIVE WindowScan(_, _, _, _)
WindowScan(lab, i, start, acc) ==
  IF i > Len(lab) - 1 THEN acc
  ELSE IF lab[i + 1] = 1 /\ lab[i] = 0
       THEN WindowScan(lab, i + 1, Stamp(i), acc)
  ELSE IF lab[i] = 1 /\ lab[i + 1] = 0
       THEN WindowScan(lab, i + 1, start, Append(acc, <<start, Stamp(i - 1)>>))
  ELSE IF i = Len(lab) - 1 /\ lab[i + 1] = 1
       THEN WindowScan(lab, i + 1, start, Append(acc, <<start, PyInt(i)>>))
  ELSE WindowScan(lab, i + 1, start, acc)

label_anomaly_windows(lab) == WindowScan(lab, 1, PyInt(0), <<>>)

\* --------------------------------------------------------- calculate_IOU
\* Python's datetime comparison operators raise TypeError on an int operand.
Comparable(g) == g.k = "ts"

\* Variant: the first branch takes the true window's end for the end of the
\* union, as if the detection never outlasted the true window.
PairCaseUnionToTruthEnd(start, end, g) ==
  LET g0 == g[1]
      g1 == g[2]
      Raise == [err |-> TRUE, hit |-> FALSE, overlap |-> 0, union |-> 1]
      Miss == [err |-> FALSE, hit |-> FALSE, overlap |-> 0, union |-> 1]
      Hit(o, u) == [err |-> FALSE, hit |-> TRUE, overlap |-> o, union |-> u]
      t_min(a, b) == IF a < b THEN a ELSE b
      t_max(a, b) == IF a > b THEN a ELSE b
  IN  IF ~Comparable(g0) THEN Raise
      ELSE IF start <= g0.v /\ end >= g0.v
           THEN IF ~Comparable(g1) THEN Raise
                ELSE Hit(1 + (t_min(g1.v, end) - g0.v), 1 + (g1.v - start))
      ELSE IF start >= g0.v /\ ~Comparable(g1) THEN Raise
      ELSE IF start >= g0.v /\ end <= g1.v
           THEN Hit(1 + (end - start), 1 + (g1.v - g0.v))
      ELSE IF ~Comparable(g1) THEN Raise
      ELSE IF start <= g1.v /\ end >= g1.v
           THEN Hit(1 + (g1.v - start), 1 + (end - g0.v))
      ELSE Miss

\* Variant: without the third branch (a detection that starts inside the
\* true window and outlasts it).
PairCaseNoRightOverlap(start, end, g) ==
  LET g0 == g[1]
      g1 == g[2]
      Raise == [err |-> TRUE, hit |-> FALSE, overlap |-> 0, union |-> 1]
      Miss == [err |-> FALSE, hit |-> FALSE, overlap |-> 0, union |-> 1]
      Hit(o, u) == [err |-> FALSE, hit |-> TRUE, overlap |-> o, union |-> u]
      t_min(a, b) == IF a < b THEN a ELSE b
      t_max(a, b) == IF a > b THEN a ELSE b
  IN  IF ~Comparable(g0) THEN Raise
      ELSE IF start <= g0.v /\ end >= g0.v
           THEN IF ~Comparable(g1) THEN Raise
                ELSE Hit(1 + (t_min(g1.v, end) - g0.v), 1 + (t_max(g1.v, end) - start))
      ELSE IF start >= g0.v /\ ~Comparable(g1) THEN Raise
      ELSE IF start >= g0.v /\ end <= g1.v
           THEN Hit(1 + (end - start), 1 + (g1.v - g0.v))
      ELSE IF ~Comparable(g1) THEN Raise
      ELSE Miss

\* Evaluation of the if/elif chain of one (detection, true window) pair in
\* Python's left-to-right, short-circuit order.  `start`, `end` are the
\* parsed detection times, g = <<g0, g1>> the true window.
\* Result: err (a TypeError was raised), hit (a branch was taken),
\* overlap and union in minutes.
PairCase(start, end, g) ==
  LET g0 == g[1]
      g1 == g[2]
      Raise == [err |-> TRUE, hit |-> FALSE, overlap |-> 0, union |-> 1]
      Miss == [err |-> FALSE, hit |-> FALSE, overlap |-> 0, union |-> 1]
      Hit(o, u) == [err |-> FALSE, hit |-> TRUE, overlap |-> o, union |-> u]
      t_min(a, b) == IF a < b THEN a ELSE b
      t_max(a, b) == IF a > b THEN a ELSE b
  IN  IF ~Comparable(g0) THEN Raise
      ELSE IF start <= g0.v /\ end >= g0.v
           THEN IF ~Comparable(g1) THEN Raise
                ELSE Hit(1 + (t_min(g1.v, end) - g0.v), 1 + (t_max(g1.v, end) - start))
      ELSE IF start >= g0.v /\ ~Comparable(g1) THEN Raise
      ELSE IF start >= g0.v /\ end <= g1.v
           THEN Hit(1 + (end - start), 1 + (g1.v - g0.v))
      ELSE IF ~Comparable(g1) THEN Raise
      ELSE IF start <= g1.v /\ end >= g1.v
           THEN Hit(1 + (g1.v - start), 1 + (end - g0.v))
      ELSE Miss

\* The inner loop over label_window for one detection, from index j on.
RECURSIVE RowScan(_, _, _, _)
RowScan(d, label_window, j, acc) ==
  IF j > Len(label_window) \/ acc.err THEN acc
  ELSE LET c == PairCase(d.start, d.end, label_window[j])
       IN  IF c.err THEN [acc EXCEPT !.err = TRUE]
           ELSE IF c.hit
                THEN RowScan(d, label_window, j + 1,
                             [err |-> FALSE,
                              iou_i |-> DAdd(acc.iou_i, DDiv(c.overlap, c.union)),
                              region |-> Append(acc.region, j - 1)])
           ELSE RowScan(d, label_window, j + 1, acc)

Row(d, label_window) ==
  RowScan(d, label_window, 1, [err |-> FALSE, iou_i |-> DZero, region |-> <<>>])

calculate_IOU(anoms, label_window) ==
  LET rows == [i \in 1..Len(anoms) |-> Row(anoms[i], label_window)]
  IN  IF \E i \in 1..Len(anoms) : rows[i].err
      THEN [err |-> "TypeError", iou |-> <<>>, anomaly_region |-> <<>>]
      ELSE [err |-> "none",
            iou |-> [i \in 1..Len(anoms) |-> rows[i].iou_i],
            anomaly_region |-> [i \in 1..Len(anoms) |-> rows[i].region]]

\* ------------------------------------------------- average_precision_sls
\* np.mean of a list: NaN for an empty list, else the arithmetic mean.
NaN == [n |-> 0, d |-> 0]
IsNaN(x) == x.d = 0

npmean(s) == IF Len(s) = 0 THEN NaN
             ELSE LET t == FSum(s) IN Frac(t.n, t.d * Len(s))

\* Variant: every covered window is appended, seen before or not.
AddWindowsNoDedup(region, ws) == region \o ws

\* "for window in anomaly_region[j]: if window not in region: region.append(window)"
RECURSIVE AddWindows(_, _)
AddWindows(region, ws) ==
  IF ws = <<>> THEN region
  ELSE AddWindows(IF \E x \in 1..Len(region) : region[x] = ws[1]
                  THEN region ELSE Append(region, ws[1]),
                  Tail(ws))

\* The loop over j of the top-i prefix: true positives and covered windows.
RECURSIVE PrefixScan(_, _, _, _, _, _)
PrefixScan(iou, anomaly_region, iou_threshold, i, j, acc) ==
  IF j > i THEN acc
  ELSE IF DGt(iou[j], iou_threshold)
       THEN PrefixScan(iou, anomaly_region, iou_threshold, i, j + 1,
                       [tp |-> acc.tp + 1,
                        region |-> AddWindows(acc.region, anomaly_region[j])])
  ELSE PrefixScan(iou, anomaly_region, iou_threshold, i, j + 1, acc)

\* Variant: the sweep also evaluates the full ranking, range(1, len(iou) + 1).
PrefixRangeInclusive(n) == 1..n

\* The prefix lengths the source evaluates: range(1, len(iou)).
PrefixRange(n) == 1..(n - 1)

\* Lines 104-113 for the top-i prefix: tp and the covered windows.
Prefix(iou, anomaly_region, iou_threshold, i) ==
  PrefixScan(iou, anomaly_region, iou_threshold, i, 1, [tp |-> 0, region |-> <<>>])

\* Line 115, with fp = len(iou_i) - tp.
PrecisionOf(a, i) == Frac(a.tp, a.tp + (i - a.tp))

\* Line 116; the caller raises ZeroDivisionError when nwindows = 0.
RecallOf(a, nwindows) == Frac(Len(a.region), nwindows)

recall_interp == [x \in 1..11 |-> Frac(x - 1, 10)]

\* The while loop of one recall level over the reversed sequences.
RECURSIVE InterpScan(_, _, _, _, _)
InterpScan(recall, precision, val, k, p) ==
  IF k <= Len(recall) /\ FGe(recall[k], val)
  THEN InterpScan(recall, precision, val, k + 1,
                  IF FGe(precision[k], p) THEN precision[k] ELSE p)
  ELSE p

\* Line 120: the levels in descending order.
recall_levels == Reverse(recall_interp)

\* Variant: the scan runs over the sequences in rank order, not reversed.
InterpolateNoReverse(recall, precision) ==
  [x \in 1..Len(recall_levels) |-> InterpScan(recall, precision, recall_levels[x], 1, Zero)]

\* Lines 121-131: both sequences are reversed, then scanned level by level.
Interpolate(recall, precision) ==
  LET levels == recall_levels
      rec == Reverse(recall)
      prec == Reverse(precision)
  IN  [x \in 1..Len(levels) |-> InterpScan(rec, prec, levels[x], 1, Zero)]

NoCall == [err |-> "none", labeled_data |-> <<>>, iou |-> <<>>,
           anomaly_region |-> <<>>, precision |-> <<>>, recall |-> <<>>,
           precision_interp |-> <<>>, ap |-> NaN, th |-> DZero]

\* Lines 99-132: the sweep over the prefixes, the interpolation and the mean,
\* from the result c of calculate_IOU on the true windows labeled_data.
\* err names the exception that ends the call, if any; on an exception
\* nothing is returned and the fields hold what had been computed.
Aggregate(c, labeled_data, iou_threshold) ==
  LET n == Len(c.iou)
      base == [NoCall EXCEPT !.labeled_data = labeled_data, !.th = iou_threshold]
  IN  IF c.err # "none" THEN [base EXCEPT !.err = c.err]
      ELSE IF PrefixRange(n) # {} /\ Len(labeled_data) = 0
           \* line 115 has appended the first precision when line 116 raises
           THEN [base EXCEPT !.err = "ZeroDivisionError", !.iou = c.iou,
                             !.anomaly_region = c.anomaly_region,
                             !.precision =
                                <<PrecisionOf(Prefix(c.iou, c.anomaly_region,
                                                     iou_threshold, 1), 1)>>]
      ELSE LET m == Cardinality(PrefixRange(n))
               top == [i \in 1..m |-> Prefix(c.iou, c.anomaly_region, iou_threshold, i)]
               precision == [i \in 1..m |-> PrecisionOf(top[i], i)]
               recall == [i \in 1..m |-> RecallOf(top[i], Len(labeled_data))]
               pin == Interpolate(recall, precision)
           IN  [err |-> "none", labeled_data |-> labeled_data, iou |-> c.iou,
                anomaly_region |-> c.anomaly_region, precision |-> precision,
                recall |-> recall, precision_interp |-> pin, ap |-> npmean(pin),
                th |-> iou_threshold]

\* The whole function, lines 95-132.
average_precision_sls(anoms, lab, iou_threshold) ==
  LET labeled_data == label_anomaly_windows(lab)
  IN  Aggregate(calculate_IOU(anoms, labeled_data), labeled_data, iou_threshold)

\* -------------------------------------------- mean_average_precision_sls
\* 0.05, 0.10, 0.15, 0.20, 0.25: each literal is the double nearest to it.
thresholds == <<DDiv(1, 20), DDiv(1, 10), DDiv(3, 20), DDiv(1, 5), DDiv(1, 4)>>

\* ------------------------------------------------------------- the inputs
RECURSIVE SeqsUpTo(_, _)
SeqsUpTo(S, n) ==
  IF n = 0 THEN {<<>>}
  ELSE LET prev == SeqsUpTo(S, n - 1)
       IN  prev \cup {Append(s, x) : s \in {t \in prev : Len(t) = n - 1}, x \in S}

\* Label series: every 0/1 sequence of at most n points.
LabelSeries(n) == SeqsUpTo({0, 1}, n)

\* A detection row, its start and end already parsed to minutes by stt.
Detections(t) == {d \in [start : 0..t, end : 0..t] : d.start <= d.end}

\* Ranked tables of at most n rows.
DetectionTables(t, n) == SeqsUpTo(Detections(t), n)

\* ----------------------------------------------------------- the program
InitWith(series) ==
  /\ label \in series
  /\ anomalies = <<>>
  /\ pc = "detect"
  /\ ti = 0
  /\ mean = Zero
  /\ call = NoCall
  /\ result = Zero

\* Line 145: the external detector returns its ranked table of windows.
DetectWith(tables) ==
  /\ pc = "detect"
  /\ anomalies' \in tables
  /\ pc' = "loop"
  /\ UNCHANGED <<label, ti, mean, call, result>>

\* Lines 149-150: one iteration of the loop over the thresholds, the call of
\* average_precision_sls included.
ThresholdLoop ==
  /\ pc = "loop"
  /\ ti < Len(thresholds)
  /\ \E r \in {average_precision_sls(anomalies, label, thresholds[ti + 1])} :
       /\ call' = r
       /\ IF r.err # "none"
          THEN /\ pc' = "raised"
               /\ UNCHANGED <<ti, mean>>
          ELSE /\ pc' = "loop"
               /\ ti' = ti + 1
               /\ mean' = FAdd(mean, r.ap)
  /\ UNCHANGED <<label, anomalies, result>>

\* Line 151.
Return ==
  /\ pc = "loop"
  /\ ti = Len(thresholds)
  /\ result' = Frac(mean.n, mean.d * Len(thresholds))
  /\ pc' = "done"
  /\ UNCHANGED <<label, anomalies, ti, mean, call>>

\* Long label series, short tables: windows and overlap scores.
Init == InitWith(LabelSeries(MaxLabelLen))
DetectAnomalies == DetectWith(DetectionTables(MaxTime, MaxDet))
Next == DetectAnomalies \/ ThresholdLoop \/ Return
Spec == Init /\ [][Next]_vars

\* Short label series, long tables: the precision/recall sweep.
InitRank == InitWith(LabelSeries(RankLabelLen))
DetectRanked == DetectWith(DetectionTables(RankTime, RankDet))
NextRank == DetectRanked \/ ThresholdLoop \/ Return
SpecRank == InitRank /\ [][NextRank]_vars

\* The worked scenario: one fixed label series, every table of at most two
\* windows inside it.
ScenarioLabels == <<0, 0, 1, 1, 1, 0, 0, 1, 0, 0>>
ScenarioTable == <<[start |-> 2, end |-> 4], [start |-> 6, end |-> 8]>>
InitScenario == InitWith({ScenarioLabels})
DetectScenario == DetectWith(DetectionTables(Len(ScenarioLabels) - 1, Len(ScenarioTable)))
NextScenario == DetectScenario \/ ThresholdLoop \/ Return
SpecScenario == InitScenario /\ [][NextScenario]_vars

\* Long series with three runs of 1s inside one wide detection window.
RunsLabel(a, b, c) ==
  [x \in 1..OrderLen |->
     IF \/ x - 1 \in 1..a
        \/ x - 1 \in (a + 2)..(a + b + 1)
        \/ x - 1 \in (a + b + 3)..(a + b + c + 2)
     THEN 1 ELSE 0]
OrderLabels == {RunsLabel(a, b, c) : a \in 1..MaxRun, b \in 1..MaxRun, c \in 1..MaxRun}
OrderWindows == {[start |-> 1, end |-> OrderLen - 2],
                 [start |-> 1, end |-> (OrderLen \div 2) - 1],
                 [start |-> 0, end |-> 0]}
InitOrder == InitWith(OrderLabels)
DetectOrder == DetectWith(SeqsUpTo(OrderWindows, 2))
NextOrder == DetectOrder \/ ThresholdLoop \/ Return
SpecOrder == InitOrder /\ [][NextOrder]_vars

\* ================================================================ claims
\* `call` holds the outcome of a call of average_precision_sls.
Called == ti > 0 \/ pc = "raised"
Returned == Called /\ call.err = "none"

InUnit(x) == FGe(x, Zero) /\ FLe(x, One)
Last(s) == s[Len(s)]
NoOnes(lab) == \A x \in 1..Len(lab) : lab[x] = 0

\* ------------------------------------------------------------------- C1
\* C1: with no ground-truth interval (no 1 in the labels) and any number of
\* detections, average_precision_sls ends normally, every recall value is 0
\* and the AP is 0, so the mean average precision is 0.
C1_NoTruthGivesZero ==
  /\ (Called /\ NoOnes(label)) =>
        /\ call.err = "none"
        /\ \A x \in 1..Len(call.recall) : call.recall[x] = Zero
        /\ call.ap = Zero
  /\ (NoOnes(label) /\ pc \in {"raised", "done"}) =>
        (pc = "done" /\ result = Zero)

\* ------------------------------------------------------------------- C3
\* C3: for a label series of length >= 2 whose last label is 1, the returned
\* list ends with an interval whose end is the index of the last element,
\* whatever the length of the trailing run.
C3_TrailingRunClosed ==
  (Called /\ Len(label) >= 2 /\ Last(label) = 1) =>
     /\ call.labeled_data # <<>>
     /\ Last(call.labeled_data)[2] = PyInt(Len(label) - 1)

\* ------------------------------------------------------------------- C6
\* A maximal run of 1s occupying source indexes a..b that is followed by a 0.
ClosedRun(lab, a, b) ==
  /\ 0 <= a /\ a <= b /\ b + 1 <= Len(lab) - 1
  /\ \A x \in a..b : lab[x + 1] = 1
  /\ lab[b + 2] = 0
  /\ (a > 0 => lab[a] = 0)

\* C6: every interval appended on a 1->0 transition is (timestamp of the
\* first point, timestamp of the last point) of the maximal run of 1s that
\* just ended, also when the run starts at index 0; the intervals are
\* pairwise non-overlapping and ordered by start.
C6_WindowIsMaximalRun ==
  Called =>
    LET w == call.labeled_data
    IN  /\ \A x \in 1..Len(w) :
              w[x][2].k = "ts" =>
                 \E a \in 0..Len(label), b \in 0..Len(label) :
                    /\ ClosedRun(label, a, b)
                    /\ w[x] = <<Stamp(a), Stamp(b)>>
        /\ \A x \in 1..Len(w), y \in 1..Len(w) :
              x < y => /\ w[x][1].k = "ts" /\ w[x][2].v < w[y][1].v
                       /\ w[y][1].k = "ts" /\ w[x][1].v < w[y][1].v

\* ------------------------------------------------------------------- C2
Min(a, b) == IF a < b THEN a ELSE b
Max(a, b) == IF a > b THEN a ELSE b

\* The three-case classification as the claim words it: case (a) asks for
\* D.start <= G.start <= D.end <= G.end.  ds, de: detection; gs, ge: truth.
StatedContribution(ds, de, gs, ge) ==
  IF ds <= gs /\ gs <= de /\ de <= ge
  THEN DDiv(1 + Min(ge, de) - gs, 1 + Max(ge, de) - ds)
  ELSE IF ds >= gs /\ de <= ge
  THEN DDiv(1 + de - ds, 1 + ge - gs)
  ELSE IF ds <= ge /\ ge <= de
  THEN DDiv(1 + ge - ds, 1 + de - gs)
  ELSE DZero

\* The same with case (a) reading D.start <= G.start <= D.end only.
AmendedContribution(ds, de, gs, ge) ==
  IF ds <= gs /\ gs <= de
  THEN DDiv(1 + Min(ge, de) - gs, 1 + Max(ge, de) - ds)
  ELSE IF ds >= gs /\ de <= ge
  THEN DDiv(1 + de - ds, 1 + ge - gs)
  ELSE IF ds <= ge /\ ge <= de
  THEN DDiv(1 + ge - ds, 1 + de - gs)
  ELSE DZero

\* The detection's score: the contributions added in list order.
StatedTotal(d, w) ==
  DSum([j \in 1..Len(w) |-> StatedContribution(d.start, d.end, w[j][1].v, w[j][2].v)])

AmendedTotal(d, w) ==
  DSum([j \in 1..Len(w) |-> AmendedContribution(d.start, d.end, w[j][1].v, w[j][2].v)])

StrictlyContains(d, g) == d.start < g[1].v /\ g[2].v < d.end

\* C2 as stated: the score of every detection is the sum over the true
\* windows of the contribution given by the three cases (a) D.start <=
\* G.start <= D.end <= G.end, (b) D inside G, (c) D.start <= G.end <= D.end,
\* taken in this priority, also when D strictly contains G.
C2_StatedCases ==
  Returned =>
    \A i \in 1..Len(anomalies) :
       call.iou[i] = StatedTotal(anomalies[i], call.labeled_data)

\* C2 amended: case (a) applies whenever D.start <= G.start <= D.end, with
\* no condition on D.end, so a detection that strictly contains a true
\* window contributes (1 + G.end - G.start) / (1 + D.end - D.start).
C2_AmendedCases ==
  Returned =>
    \A i \in 1..Len(anomalies) :
       /\ call.iou[i] = AmendedTotal(anomalies[i], call.labeled_data)
       /\ \A j \in 1..Len(call.labeled_data) :
            (Len(call.labeled_data) = 1 /\ StrictlyContains(anomalies[i], call.labeled_data[j]))
              => call.iou[i] = DDiv(1 + call.labeled_data[j][2].v - call.labeled_data[j][1].v,
                                    1 + anomalies[i].end - anomalies[i].start)

C2_Witness ==
  /\ Returned
  /\ Len(anomalies) = 1 /\ Len(call.labeled_data) = 1
  /\ StrictlyContains(anomalies[1], call.labeled_data[1])
  /\ call.iou[1] = DDiv(2, 4)

\* ------------------------------------------------------------------ C10
Intersects(d, g) == d.start <= g[2].v /\ g[1].v <= d.end

InSeq(x, s) == \E y \in 1..Len(s) : s[y] = x

\* C10: a true window's index is in a detection's covered list exactly when
\* the closed intervals intersect; the ratio added then has 1 <= overlap <=
\* union; the detection's score is >= 0 and is 0 exactly when the covered
\* list is empty.
C10_CoveredIffIntersects ==
  Returned =>
    \A i \in 1..Len(anomalies) :
       /\ \A j \in 1..Len(call.labeled_data) :
            /\ InSeq(j - 1, call.anomaly_region[i])
                 <=> Intersects(anomalies[i], call.labeled_data[j])
            /\ LET c == PairCase(anomalies[i].start, anomalies[i].end,
                                 call.labeled_data[j])
               IN  c.hit => (1 <= c.overlap /\ c.overlap <= c.union)
       /\ DGe(call.iou[i], DZero)
       /\ DGe(DDiv(Len(call.anomaly_region[i]), 1), call.iou[i])
       /\ (call.iou[i] = DZero <=> call.anomaly_region[i] = <<>>)

C10_Witness ==
  /\ Returned
  /\ Len(anomalies) = 1
  /\ Len(call.anomaly_region[1]) = 2
  /\ DGt(call.iou[1], DZero)

\* ------------------------------------------------------------------- C5
\* C5 as stated: with fewer than 2 detections there are no precision/recall
\* points and the AP returned is the NaN sentinel, not a number.
C5_FewDetectionsNaN ==
  (Returned /\ Len(anomalies) < 2) =>
     /\ call.precision = <<>> /\ call.recall = <<>>
     /\ IsNaN(call.ap)

\* C5 amended: with fewer than 2 detections there are no precision/recall
\* points and no division error; the call raises (a TypeError) exactly when
\* its one detection is compared with a window that has an int endpoint;
\* otherwise all 11 interpolated precisions are 0 and the AP returned is the
\* number 0.
C5_FewDetectionsZero ==
  (Called /\ Len(anomalies) < 2) =>
     /\ call.precision = <<>> /\ call.recall = <<>>
     /\ call.err # "ZeroDivisionError"
     /\ call.err # "none" <=>
          /\ Len(anomalies) = 1
          /\ \E x \in 1..Len(call.labeled_data) :
                ~(Comparable(call.labeled_data[x][1]) /\ Comparable(call.labeled_data[x][2]))
     /\ call.err = "none" =>
          /\ Len(call.precision_interp) = 11
          /\ \A x \in 1..11 : call.precision_interp[x] = Zero
          /\ call.ap = Zero /\ ~IsNaN(call.ap)

C5_Witness ==
  /\ Returned
  /\ Len(anomalies) = 1
  /\ call.iou = <<DOne>>
  /\ call.precision = <<>>
  /\ call.ap = Zero

\* ------------------------------------------------------------------- C7
\* C7: with at least 2 detections and at least 1 ground-truth interval,
\* every precision, every recall and every interpolated precision lies in
\* [0, 1], and so does the AP.
C7_UnitRange ==
  (Returned /\ Len(anomalies) >= 2 /\ Len(call.labeled_data) >= 1) =>
     /\ \A x \in 1..Len(call.precision) : InUnit(call.precision[x])
     /\ \A x \in 1..Len(call.recall) : InUnit(call.recall[x])
     /\ Len(call.precision_interp) = 11
     /\ \A x \in 1..11 : InUnit(call.precision_interp[x])
     /\ ~IsNaN(call.ap) /\ InUnit(call.ap)

\* Two ranked detections cover the same true window and both count.
C7_Witness ==
  /\ Returned
  /\ Len(anomalies) = 3 /\ Len(call.labeled_data) = 1
  /\ call.anomaly_region[1] = <<0>> /\ call.anomaly_region[2] = <<0>>
  /\ call.recall = <<One, One>>
  /\ call.precision = <<One, One>>
  /\ call.ap = One

\* ------------------------------------------------------------------- C9
\* The largest precision among ALL points whose recall is >= level, 0 if none.
MaxPrecisionFrom(recall, precision, level) ==
  LET pts == {k \in 1..Len(recall) : FGe(recall[k], level)}
  IN  IF pts = {} THEN Zero
      ELSE LET best == CHOOSE k \in pts : \A m \in pts : FGe(precision[k], precision[m])
           IN  precision[best]

\* C9: at each of the 11 recall levels the interpolated precision equals the
\* maximum precision over all points with recall >= the level (0 if none);
\* recall_k is non-decreasing in k; and the interpolated values are
\* non-decreasing as the level decreases.
C9_InterpolatedIsMax ==
  Returned =>
     /\ Len(call.precision_interp) = 11
     /\ \A x \in 1..11 :
          call.precision_interp[x] =
             MaxPrecisionFrom(call.recall, call.precision, Frac(11 - x, 10))
     /\ \A k \in 1..Len(call.recall), m \in 1..Len(call.recall) :
          k <= m => FLe(call.recall[k], call.recall[m])
     /\ \A x \in 1..11, y \in 1..11 :
          x <= y => FLe(call.precision_interp[x], call.precision_interp[y])

\* The top detection misses (recall 0), the second one hits (recall 1): the
\* point that decides every level is not the first one scanned in rank order.
C9_Witness ==
  /\ Returned
  /\ call.recall = <<Zero, One>>
  /\ call.precision = <<Zero, Frac(1, 2)>>
  /\ call.precision_interp[1] = Frac(1, 2)
  /\ call.ap = Frac(1, 2)

\* ------------------------------------------------------------------- C4
\* C4: for labels [0,0,1,1,1,0,0,1,0,0] and the ranked windows (2,4), (6,8),
\* with an IoU threshold below the second window's ratio 1/3, a
\* precision/recall point is computed for prefix length k = 2 and it is
\* precision 1, recall 1.
C4_PointAtTwo ==
  (Returned /\ label = ScenarioLabels /\ anomalies = ScenarioTable
            /\ DGt(DDiv(1, 3), call.th)) =>
     /\ call.iou = <<DOne, DDiv(1, 3)>>
     /\ Len(call.precision) >= 2 /\ Len(call.recall) >= 2
     /\ call.precision[2] = One
     /\ call.recall[2] = One

\* ------------------------------------------------------------------- C8
Bijections(n) == {f \in [1..n -> 1..n] : \A x \in 1..n, y \in 1..n : f[x] = f[y] => x = y}
Permuted(s, f) == [x \in 1..Len(s) |-> s[f[x]]]

\* C8: for disjoint well-formed true windows, handing calculate_IOU the list
\* in any other order leaves every detection's summed score, every
\* (precision, recall) point and the AP unchanged.
C8_OrderIndependent ==
  Returned =>
    \A f \in Bijections(Len(call.labeled_data)) :
       LET w == Permuted(call.labeled_data, f)
           r == Aggregate(calculate_IOU(anomalies, w), w, call.th)
       IN  /\ r.err = "none"
           /\ r.iou = call.iou
           /\ r.precision = call.precision
           /\ r.recall = call.recall
           /\ r.ap = call.ap

====
